---- MODULE Spec2Model ----
(***************************************************************************)
(* A model of the VIXcelerate benchmarking harness.                        *)
(*                                                                         *)
(*   scripts/bench.py        run_one, med, main (the sweep)                *)
(*   scripts/postprocess.py  load, save_summary, amdahl_serial_fraction,   *)
(*                           main (the report from a persisted table)      *)
(*                                                                         *)
(* Floats are modelled as exact rationals plus one NaN value.  Text is     *)
(* modelled as lines of tokens, a token being a sequence of characters     *)
(* (a number is spelled digit by digit, a word is one atom).               *)
(***************************************************************************)
EXTENDS Integers, Sequences, FiniteSets, TLC

VARIABLES
    pc,         \* position of the running script
    environ,    \* os.environ of the harness process
    TIME_FLAG,  \* <<>> when TIME_BIN is None, else <<"-l">> (IS_MAC) or <<"-v">>
    child,      \* the last child process: its command, environment, streams, exit code
    ret,        \* what the last call under study returned
    seqExists,  \* SEQ_BIN.exists()
    ompExists,  \* OMP_BIN.exists()
    outDir,     \* whether OUT_DIR exists
    ti,         \* index into THREADS of the configuration being measured (0: serial)
    runs,       \* the samples of the configuration being measured
    serial,     \* T1_wall, T1_app, hc1, hp1 once the serial baseline is reduced
    rows,       \* bench.main's rows
    spawned,    \* every child spawned so far: <<binary, threads>>
    files,      \* the files written so far: name -> content
    table,      \* the persisted table postprocess.py is given: a sequence of text rows
    args,       \* postprocess.py's --mrange and --nstrike: <<>> for None, <<n>> otherwise
    loaded      \* postprocess.load's result

vars == <<pc, environ, TIME_FLAG, child, ret, seqExists, ompExists, outDir, ti,
          runs, serial, rows, spawned, files, table, args, loaded>>

-----------------------------------------------------------------------------
(* Sequences *)

Last(s) == s[Len(s)]

Range(s) == {s[i] : i \in DOMAIN s}

RECURSIVE Flatten(_)
Flatten(ss) == IF ss = <<>> THEN <<>> ELSE Head(ss) \o Flatten(Tail(ss))

Reverse(s) == [i \in 1..Len(s) |-> s[Len(s) + 1 - i]]

InsertAt(s, i, x) == SubSeq(s, 1, i - 1) \o <<x>> \o SubSeq(s, i, Len(s))

\* the first index of s at which P holds, 0 when there is none
SelectIdx(s, P(_)) ==
    LET hits == {i \in 1..Len(s) : P(i)}
    IN  IF hits = {} THEN 0 ELSE CHOOSE i \in hits : \A j \in hits : i <= j

-----------------------------------------------------------------------------
(* Floats: exact rationals n/d in lowest terms, and NaN *)

RECURSIVE GCD(_, _)
GCD(a, b) == IF b = 0 THEN a ELSE GCD(b, a % b)

Abs(x) == IF x < 0 THEN -x ELSE x

NaN == [nan |-> TRUE, n |-> 0, d |-> 1]

R(n, d) ==
    LET g == GCD(Abs(n), Abs(d))
        s == IF d < 0 THEN -1 ELSE 1
    IN  [nan |-> FALSE, n |-> (s * n) \div g, d |-> (s * d) \div g]

isnan(x) == x.nan

\* Python's x < y on floats: False as soon as one side is NaN
Lt(x, y) == ~x.nan /\ ~y.nan /\ x.n * y.d < y.n * x.d

Gt(x, y) == Lt(y, x)

\* x / y with y # 0 (a NaN operand gives NaN)
Div(x, y) == IF x.nan \/ y.nan THEN NaN ELSE R(x.n * y.d, x.d * y.n)

Add(x, y) == IF x.nan \/ y.nan THEN NaN ELSE R(x.n * y.d + y.n * x.d, x.d * y.d)

Mul(x, y) == IF x.nan \/ y.nan THEN NaN ELSE R(x.n * y.n, x.d * y.d)

Sub(x, y) == IF x.nan \/ y.nan THEN NaN ELSE R(x.n * y.d - y.n * x.d, x.d * y.d)

-----------------------------------------------------------------------------
(* Text *)

Digits == {"0", "1", "2", "3", "4", "5", "6", "7", "8", "9"}

DigitVal(c) ==
    CASE c = "0" -> 0 [] c = "1" -> 1 [] c = "2" -> 2 [] c = "3" -> 3 [] c = "4" -> 4
      [] c = "5" -> 5 [] c = "6" -> 6 [] c = "7" -> 7 [] c = "8" -> 8 [] c = "9" -> 9

DigitChar(v) == CHOOSE c \in Digits : DigitVal(c) = v

RECURSIVE IntOf(_)
\* int() of a run of digits
IntOf(cs) == IF cs = <<>> THEN 0 ELSE 10 * IntOf(SubSeq(cs, 1, Len(cs) - 1)) + DigitVal(Last(cs))

RECURSIVE Pow10(_)
Pow10(k) == IF k = 0 THEN 1 ELSE 10 * Pow10(k - 1)

RECURSIVE str(_)
\* str() of a non-negative int
str(v) == IF v < 10 THEN <<DigitChar(v)>> ELSE str(v \div 10) \o <<DigitChar(v % 10)>>

\* the text matches [0-9.]+
IsDotNum(tok) == tok # <<>> /\ \A i \in DOMAIN tok : tok[i] \in Digits \cup {"."}

\* float() accepts the text captured by [0-9.]+: one dot at most, one digit at least
FloatOk(tok) ==
    /\ Cardinality({i \in DOMAIN tok : tok[i] = "."}) <= 1
    /\ \E i \in DOMAIN tok : tok[i] \in Digits

\* float() of such a text
FloatOf(tok) ==
    LET dots == {i \in DOMAIN tok : tok[i] = "."}
        dot  == IF dots = {} THEN Len(tok) + 1 ELSE CHOOSE i \in dots : TRUE
        ds   == SelectSeq(tok, LAMBDA c : c \in Digits)
    IN  R(IntOf(ds), Pow10(IF dots = {} THEN 0 ELSE Len(tok) - dot))

RECURSIVE DigitRuns(_, _)
\* re.findall(r"(\d+)", tok): the maximal runs of digits of a token, cur the run being read
DigitRuns(tok, cur) ==
    IF tok = <<>> THEN (IF cur = <<>> THEN <<>> ELSE <<cur>>)
    ELSE IF Head(tok) \in Digits THEN DigitRuns(Tail(tok), Append(cur, Head(tok)))
    ELSE (IF cur = <<>> THEN <<>> ELSE <<cur>>) \o DigitRuns(Tail(tok), <<>>)

RECURSIVE findall_int(_)
\* re.findall(r"(\d+)", line): tokens are separated by blanks, so no run crosses two
findall_int(line) ==
    IF line = <<>> THEN <<>> ELSE DigitRuns(Head(line), <<>>) \o findall_int(Tail(line))

\* str.lower() of an atom
lower(c) ==
    CASE c = "Maximum resident set size" -> "maximum resident set size"
      [] c = "MAXIMUM RESIDENT SET SIZE" -> "maximum resident set size"
      [] OTHER -> c

\* the characters of a line: its tokens joined by blanks
RECURSIVE LineChars(_)
LineChars(line) ==
    IF line = <<>> THEN <<>>
    ELSE IF Len(line) = 1 THEN Head(line)
    ELSE Head(line) \o <<" ">> \o LineChars(Tail(line))

\* key in line.lower()
KeyIn(key, line) ==
    LET cs == LineChars(line)
    IN  \E i \in 1..Len(cs) :
            /\ i + Len(key) - 1 <= Len(cs)
            /\ \A k \in 1..Len(key) : lower(cs[i + k - 1]) = key[k]

\* the atoms a match of ...\s*s may continue with
StartsWithS(tok) == tok # <<>> /\ tok[1] \in {"s", "sec"}

\* APP_TIME_RE.search(text): the first token of the leftmost match, 0 for None
APP_TIME_RE(toks) ==
    SelectIdx(toks, LAMBDA i :
        /\ toks[i] = <<"[bandwidth_grid_total]">>
        /\ i + 2 <= Len(toks)
        /\ IsDotNum(toks[i + 1])
        /\ StartsWithS(toks[i + 2]))

\* HC_RE.search(text), HP_RE.search(text)
MarkerRe(marker, toks) ==
    SelectIdx(toks, LAMBDA i :
        /\ toks[i] = <<marker>>
        /\ i + 1 <= Len(toks)
        /\ IsDotNum(toks[i + 1]))

HC_RE(toks) == MarkerRe("hc:", toks)

HP_RE(toks) == MarkerRe("hp:", toks)

-----------------------------------------------------------------------------
(* scripts/bench.py: configuration *)

SEQ_BIN == "vix/vix_seq"

OMP_BIN == "vix/vix_omp"

THREADS == <<1, 2, 4, 6, 8>>

REPEATS == 3

NGRID == 48

\* the phrasings of the peak-memory report line run_one looks for, in its order
RSS_KEYS ==
    << <<"maximum resident set size">>,
       <<"maximum resident set size", " ", "(kbytes)">> >>

-----------------------------------------------------------------------------
(* scripts/bench.py: run_one *)

SetKey(env, k, v) == [x \in DOMAIN env \cup {k} |-> IF x = k THEN v ELSE env[x]]

\* variant: env.setdefault("OMP_NUM_THREADS", str(threads))
ChildEnvSetDefault(env0, threads) ==
    LET e1 == SetKey(env0, "VECLIB_MAXIMUM_THREADS", <<"1">>)
        e2 == SetKey(e1, "OMP_PROC_BIND", <<"close">>)
        e3 == SetKey(e2, "OMP_PLACES", <<"cores">>)
    IN  IF threads # <<>> /\ "OMP_NUM_THREADS" \notin DOMAIN e3
        THEN SetKey(e3, "OMP_NUM_THREADS", str(threads[1]))
        ELSE e3

\* the environment handed to the child; threads is <<>> for None, <<n>> otherwise
ChildEnv(env0, threads) ==
    LET e1 == SetKey(env0, "VECLIB_MAXIMUM_THREADS", <<"1">>)
        e2 == SetKey(e1, "OMP_PROC_BIND", <<"close">>)
        e3 == SetKey(e2, "OMP_PLACES", <<"cores">>)
    IN  IF threads # <<>> THEN SetKey(e3, "OMP_NUM_THREADS", str(threads[1])) ELSE e3

\* os.environ after run_one: env is a copy, the assignments never reach os.environ
EnvironAfter(env0, threads) == env0

\* full_cmd: cmd behind the time helper when there is one
FullCmd(flag, cmd) == IF flag # <<>> THEN <<"time">> \o flag \o cmd ELSE cmd

\* the text group(1) of the internal-duration match, <<>> when neither stream matches
AppText(out, err) ==
    LET to == Flatten(out)
        te == Flatten(err)
    IN  IF APP_TIME_RE(to) # 0 THEN to[APP_TIME_RE(to) + 1]
        ELSE IF APP_TIME_RE(te) # 0 THEN te[APP_TIME_RE(te) + 1]
        ELSE <<>>

\* the text group(1) of the hc match, <<>> when there is none
HcText(out, err) ==
    LET to == Flatten(out)
    IN  IF HC_RE(to) # 0 THEN to[HC_RE(to) + 1] ELSE <<>>

\* the text group(1) of the hp match, <<>> when there is none
HpText(out, err) ==
    LET to == Flatten(out)
    IN  IF HP_RE(to) # 0 THEN to[HP_RE(to) + 1] ELSE <<>>

\* float(m.group(1)) if m else float("nan")
FloatOrNaN(text) == IF text = <<>> THEN NaN ELSE FloatOf(text)

\* one of the float() calls raises ValueError
ParseRaises(out, err) ==
    \E t \in {AppText(out, err), HcText(out, err), HpText(out, err)} :
        t # <<>> /\ ~FloatOk(t)

\* what makes run_one raise: the exit code is stored, never tested (no check=True)
\* variant: run_one with subprocess.run(..., check=True)
RunOneRaisesOnRc(out, err, rc) == rc # 0 \/ ParseRaises(out, err)

RunOneRaises(out, err, rc) == ParseRaises(out, err)

\* the peak-memory scan over the lines of f"{out}\n{err}"
MaxRss(out, err) ==
    LET lines == out \o err
        found(k) == \E i \in DOMAIN lines : KeyIn(RSS_KEYS[k], lines[i])
        ki == SelectIdx(RSS_KEYS, found)
    IN  IF ki = 0 THEN NaN
        ELSE LET li   == SelectIdx(lines, LAMBDA i : KeyIn(RSS_KEYS[ki], lines[i]))
                 toks == findall_int(lines[li])
             IN  IF toks # <<>> THEN R(IntOf(Last(toks)), 1) ELSE NaN

\* the dict run_one returns
Sample(wall, out, err, rc) ==
    [wall_s    |-> wall,
     app_s     |-> FloatOrNaN(AppText(out, err)),
     maxrss_kb |-> MaxRss(out, err),
     hc        |-> FloatOrNaN(HcText(out, err)),
     hp        |-> FloatOrNaN(HpText(out, err)),
     rc        |-> rc,
     out       |-> out,
     err       |-> err]

\* run_one(cmd, threads) with a child that prints out and err, exits with rc and
\* takes wall seconds: ret is <<sample>>, or <<>> when run_one raises
run_one(cmd, threads, out, err, rc, wall) ==
    /\ child' = [cmd     |-> FullCmd(TIME_FLAG, cmd),
                 threads |-> threads,
                 env     |-> ChildEnv(environ, threads),
                 out     |-> out,
                 err     |-> err,
                 rc      |-> rc]
    /\ environ' = EnvironAfter(environ, threads)
    /\ ret' = IF RunOneRaises(out, err, rc) THEN <<>> ELSE <<Sample(wall, out, err, rc)>>

-----------------------------------------------------------------------------
(* scripts/bench.py: med, over statistics.median and list.sort *)

RECURSIVE RunLen(_, _, _)
\* listsort's count_run from index i on: the run goes on while each element is
\* (descending) strictly below, or (ascending) not below, the one before it
RunLen(a, i, descending) ==
    IF i > Len(a) THEN Len(a)
    ELSE IF descending = Lt(a[i], a[i - 1]) THEN RunLen(a, i + 1, descending)
    ELSE i - 1

RECURSIVE Bisect(_, _, _, _)
\* binarysort's search for the place of pivot in the sorted a[l+1 .. r] (l, r as in C)
Bisect(a, pivot, l, r) ==
    LET p == l + ((r - l) \div 2)
        l2 == IF Lt(pivot, a[p + 1]) THEN l ELSE p + 1
        r2 == IF Lt(pivot, a[p + 1]) THEN p ELSE r
    IN  IF l2 < r2 THEN Bisect(a, pivot, l2, r2) ELSE l2

RECURSIVE BinarySort(_, _)
\* binarysort: a[1 .. start-1] is sorted, the rest is inserted one by one
BinarySort(a, start) ==
    IF start > Len(a) THEN a
    ELSE LET pos == Bisect(a, a[start], 0, start - 1)
             b   == InsertAt(SubSeq(a, 1, start - 1), pos + 1, a[start])
                        \o SubSeq(a, start + 1, Len(a))
         IN  BinarySort(b, start + 1)

\* sorted(data) for fewer than 64 floats: one run, then binary insertion
sorted(a) ==
    IF Len(a) < 2 THEN a
    ELSE LET desc == Lt(a[2], a[1])
             n    == RunLen(a, 3, desc)
             b    == IF desc THEN Reverse(SubSeq(a, 1, n)) \o SubSeq(a, n + 1, Len(a)) ELSE a
         IN  BinarySort(b, n + 1)

\* statistics.median of a non-empty list
median(data) ==
    LET d == sorted(data)
        n == Len(d)
    IN  IF n % 2 = 1 THEN d[(n \div 2) + 1]
        ELSE Div(Add(d[n \div 2], d[(n \div 2) + 1]), R(2, 1))

med(vals) == IF vals # <<>> THEN median(vals) ELSE NaN

Field(rs, f) == [i \in DOMAIN rs |-> rs[i][f]]

\* [r["maxrss_kb"] for r in runs if not np.isnan(r["maxrss_kb"])]
RssVals(rs) == SelectSeq(Field(rs, "maxrss_kb"), LAMBDA v : ~isnan(v))

\* the serial baseline's medians
SerialMedians(rs) ==
    [T1_wall |-> med(Field(rs, "wall_s")),
     T1_app  |-> med(Field(rs, "app_s")),
     hc1     |-> med(Field(rs, "hc")),
     hp1     |-> med(Field(rs, "hp"))]

\* variant: the ratio upside down
SpeedupInverted(T1, Tp) == IF Gt(Tp, R(0, 1)) THEN Div(Tp, T1) ELSE NaN

\* Sp = T1_wall / Tp_wall if Tp_wall > 0 else nan
Speedup(T1, Tp) == IF Gt(Tp, R(0, 1)) THEN Div(T1, Tp) ELSE NaN

\* Ep = Sp / pthr if pthr > 0 else nan
Efficiency(Sp, pthr) == IF pthr > 0 THEN Div(Sp, R(pthr, 1)) ELSE NaN

\* the row of one thread count
Row(pthr, rs, T1_wall) ==
    LET Tp == med(Field(rs, "wall_s"))
        Sp == Speedup(T1_wall, Tp)
    IN  [threads    |-> pthr,
         Tp_wall_s  |-> Tp,
         Tp_app_s   |-> med(Field(rs, "app_s")),
         speedup    |-> Sp,
         efficiency |-> Efficiency(Sp, pthr),
         maxrss_kb  |-> med(RssVals(rs)),
         hc_med     |-> med(Field(rs, "hc")),
         hp_med     |-> med(Field(rs, "hp"))]

-----------------------------------------------------------------------------
(* amdahl_serial_fraction, over numpy.linalg.lstsq *)

RECURSIVE Sum(_)
Sum(xs) == IF xs = <<>> THEN R(0, 1) ELSE Add(Head(xs), Sum(Tail(xs)))

\* beta[0] of lstsq(X, y) for X = [1, u]: the least-squares solution when the u are
\* not all equal (rank 2), the minimum-norm one when they are (rank 1; lstsq does
\* not raise on a rank-deficient or under-determined system)
LstsqBeta0(u, y) ==
    LET n   == R(Len(u), 1)
        Su  == Sum(u)
        Suu == Sum([i \in DOMAIN u |-> Mul(u[i], u[i])])
        Sy  == Sum(y)
        Suy == Sum([i \in DOMAIN u |-> Mul(u[i], y[i])])
        det == Sub(Mul(n, Suu), Mul(Su, Su))
    IN  IF det.n # 0
        THEN Div(Sub(Mul(Suu, Sy), Mul(Su, Suy)), det)
        ELSE Div(Div(Sy, n), Add(R(1, 1), Mul(u[1], u[1])))

\* what amdahl_serial_fraction(P, Tp, T1) may do: return s (<<s>>) or raise (<<>>).
\* P and Tp are sequences of floats.  With a NaN in Tp, or a zero thread count
\* (1.0/p is inf), LAPACK either fails to converge (LinAlgError) or returns NaN.
amdahl_serial_fraction(P, Tp, T1) ==
    IF \E i \in DOMAIN P : isnan(Tp[i]) \/ isnan(P[i]) \/ P[i].n = 0
    THEN {<<>>, <<NaN>>}
    ELSE {<<LstsqBeta0([i \in DOMAIN P |-> Div(R(1, 1), P[i])],
                        [i \in DOMAIN P |-> Div(Tp[i], T1)])>>}

-----------------------------------------------------------------------------
(* scripts/bench.py: ensure_paths and main *)

WriteFile(fs, name, content) == SetKey(fs, name, content)

\* variant: np.any for np.all
HasRssEverywhere(rws) == \A i \in DOMAIN rws : ~isnan(rws[i].maxrss_kb)

\* the condition under which main saves memory_vs_threads.png
HasRss(rws) == ~(\A i \in DOMAIN rws : isnan(rws[i].maxrss_kb))

\* the rows of bench_results.csv
CsvRows(rws, ser) ==
    [i \in DOMAIN rws |->
        [NGRID      |-> NGRID,
         T1_wall_s  |-> ser.T1_wall,
         T1_app_s   |-> ser.T1_app,
         hc1        |-> ser.hc1,
         hp1        |-> ser.hp1,
         threads    |-> rws[i].threads,
         Tp_wall_s  |-> rws[i].Tp_wall_s,
         Tp_app_s   |-> rws[i].Tp_app_s,
         speedup    |-> rws[i].speedup,
         efficiency |-> rws[i].efficiency,
         maxrss_kb  |-> rws[i].maxrss_kb,
         hc_med     |-> rws[i].hc_med,
         hp_med     |-> rws[i].hp_med]]

\* the files main writes from rows, amdahl being what the fit did
BenchFiles(fs, rws, ser, amdahl) ==
    LET p   == [i \in DOMAIN rws |-> R(rws[i].threads, 1)]
        f1  == WriteFile(fs, "bench_results.csv", CsvRows(rws, ser))
        f2  == WriteFile(f1, "time_vs_threads.png",
                   [i \in DOMAIN rws |-> <<p[i], rws[i].Tp_wall_s>>])
        f3  == WriteFile(f2, "speedup.png",
                   [i \in DOMAIN rws |-> <<p[i], rws[i].speedup, Div(p[i], p[1])>>])
        f4  == WriteFile(f3, "efficiency.png",
                   [i \in DOMAIN rws |-> <<p[i], rws[i].efficiency>>])
        f5  == IF HasRss(rws)
               THEN WriteFile(f4, "memory_vs_threads.png",
                        [i \in DOMAIN rws |-> <<p[i], Div(rws[i].maxrss_kb, R(1024, 1))>>])
               ELSE f4
    IN  IF amdahl # <<>> THEN WriteFile(f5, "amdahl.txt", amdahl) ELSE f5

\* variant: ensure_paths with "and" for "or"
PathsMissingBoth(seq, omp) == ~seq /\ ~omp

\* not SEQ_BIN.exists() or not OMP_BIN.exists()
PathsMissing(seq, omp) == ~seq \/ ~omp

ensure_paths ==
    /\ pc = "start"
    /\ IF PathsMissing(seqExists, ompExists)
       THEN pc' = "exit" /\ outDir' = outDir
       ELSE pc' = "serial" /\ outDir' = TRUE
    /\ UNCHANGED <<environ, TIME_FLAG, child, ret, seqExists, ompExists, ti, runs, serial,
                   rows, spawned, files, table, args, loaded>>

\* one run_one call of main, and the reduction that follows a configuration's last one
Trial(bin, pthr, out, err, rc, wall) ==
    /\ run_one(<<bin, str(NGRID)>>, <<pthr>>, out, err, rc, wall)
    /\ spawned' = Append(spawned, <<bin, pthr>>)
    /\ IF ret' = <<>>
       THEN pc' = "crashed" /\ UNCHANGED <<ti, runs, serial, rows>>
       ELSE LET rs == (IF Len(runs) = REPEATS THEN <<>> ELSE runs) \o ret'
            IN  /\ runs' = rs
                /\ IF Len(rs) < REPEATS
                   THEN UNCHANGED <<pc, ti, serial, rows>>
                   ELSE IF pc = "serial"
                   THEN /\ serial' = SerialMedians(rs)
                        /\ pc' = "parallel"
                        /\ ti' = 1
                        /\ rows' = rows
                   ELSE /\ rows' = Append(rows, Row(pthr, rs, serial.T1_wall))
                        /\ pc' = IF ti < Len(THREADS) THEN "parallel" ELSE "report"
                        /\ ti' = IF ti < Len(THREADS) THEN ti + 1 ELSE ti
                        /\ serial' = serial
    /\ UNCHANGED <<TIME_FLAG, seqExists, ompExists, outDir, files, table, args, loaded>>

-----------------------------------------------------------------------------
(* scripts/postprocess.py *)

\* the text "nan"
NanText == <<"n", "a", "n">>

\* float(cell) raises ValueError
PyFloatRaises(cell) == cell # NanText /\ ~(IsDotNum(cell) /\ FloatOk(cell))

\* float(cell)
PyFloat(cell) == IF cell = NanText THEN NaN ELSE FloatOf(cell)

\* float(cell) if cell else float("nan")
PyFloatOrNaN(cell) == IF cell # <<>> THEN PyFloat(cell) ELSE NaN

\* int(cell) raises ValueError
PyIntRaises(cell) == cell = <<>> \/ \E i \in DOMAIN cell : cell[i] \notin Digits

\* load raises: a cell that float() or int() rejects
LoadRaises(tbl) ==
    \/ PyIntRaises(tbl[1].NGRID)
    \/ PyFloatRaises(tbl[1].T1_wall_s)
    \/ PyFloatRaises(tbl[1].T1_app_s)
    \/ tbl[1].hc1 # <<>> /\ PyFloatRaises(tbl[1].hc1)
    \/ tbl[1].hp1 # <<>> /\ PyFloatRaises(tbl[1].hp1)
    \/ \E i \in DOMAIN tbl :
          \/ PyIntRaises(tbl[i].threads)
          \/ PyFloatRaises(tbl[i].Tp_wall_s)
          \/ \E f \in {"speedup", "efficiency", "hc_med", "hp_med", "maxrss_kb"} :
                tbl[i][f] # <<>> /\ PyFloatRaises(tbl[i][f])

\* what load returns for a table with rows
load(tbl) ==
    [ngrid   |-> IntOf(tbl[1].NGRID),
     T1_wall |-> PyFloat(tbl[1].T1_wall_s),
     T1_app  |-> PyFloat(tbl[1].T1_app_s),
     hc1     |-> PyFloatOrNaN(tbl[1].hc1),
     hp1     |-> PyFloatOrNaN(tbl[1].hp1),
     P       |-> [i \in DOMAIN tbl |-> IntOf(tbl[i].threads)],
     Tp      |-> [i \in DOMAIN tbl |-> PyFloat(tbl[i].Tp_wall_s)],
     Sp      |-> [i \in DOMAIN tbl |-> PyFloatOrNaN(tbl[i].speedup)],
     Ep      |-> [i \in DOMAIN tbl |-> PyFloatOrNaN(tbl[i].efficiency)],
     Hc      |-> [i \in DOMAIN tbl |-> PyFloatOrNaN(tbl[i].hc_med)],
     Hp      |-> [i \in DOMAIN tbl |-> PyFloatOrNaN(tbl[i].hp_med)],
     Rss     |-> [i \in DOMAIN tbl |-> PyFloatOrNaN(tbl[i].maxrss_kb)]]

\* int(np.argmin(Tp)), 1-based: the first NaN when there is one, else the first minimum
argmin(Tp) ==
    IF \E i \in DOMAIN Tp : isnan(Tp[i])
    THEN SelectIdx(Tp, LAMBDA i : isnan(Tp[i]))
    ELSE SelectIdx(Tp, LAMBDA i : \A j \in DOMAIN Tp : ~Lt(Tp[j], Tp[i]))

\* what save_summary writes
save_summary(P, Tp, T1_wall, Ep) ==
    LET best_i == argmin(Tp)
    IN  [best_p  |-> P[best_i],
         best_Tp |-> Tp[best_i],
         Sp      |-> Div(T1_wall, Tp[best_i]),
         Eff     |-> Ep[best_i]]

\* what save_speedup_serial plots
save_speedup_serial(P, Sp) ==
    [i \in DOMAIN P |-> <<P[i], Sp[i], R(P[i], P[1])>>]

\* what save_speedup_parallel plots, given 1 in P
save_speedup_parallel(P, Tp) ==
    LET T1p == Tp[SelectIdx(P, LAMBDA i : P[i] = 1)]
    IN  [i \in DOMAIN P |-> <<P[i], Div(T1p, Tp[i]), R(P[i], P[1])>>]

\* the rows of save_correctness_table
save_correctness_table(P, Hc, Hp, hc1, hp1) ==
    [i \in DOMAIN P |->
        [p   |-> P[i],
         hc  |-> Hc[i],
         dhc |-> IF ~(isnan(Hc[i]) \/ isnan(hc1)) THEN Sub(Hc[i], hc1) ELSE NaN,
         hp  |-> Hp[i],
         dhp |-> IF ~(isnan(Hp[i]) \/ isnan(hp1)) THEN Sub(Hp[i], hp1) ELSE NaN]]

\* what save_throughput plots: millions of QP per second
save_throughput(P, Tp, ngrid, nstrike, mrange) ==
    LET QP == nstrike * (ngrid * ngrid) * (mrange + 1)
    IN  [i \in DOMAIN P |-> <<P[i], Div(Div(R(QP, 1), Tp[i]), R(1000000, 1))>>]

\* the files main writes after load, amdahl being what the fit did
PostFiles(fs, ld, ar, amdahl) ==
    LET f1 == WriteFile(fs, "speedup_vs_serial.png", save_speedup_serial(ld.P, ld.Sp))
        f2 == IF \E i \in DOMAIN ld.P : ld.P[i] = 1
              THEN WriteFile(f1, "speedup_parallel_baseline.png",
                       save_speedup_parallel(ld.P, ld.Tp))
              ELSE f1
        f3 == WriteFile(f2, "correctness_table.md",
                  save_correctness_table(ld.P, ld.Hc, ld.Hp, ld.hc1, ld.hp1))
        f4 == WriteFile(f3, "summary.txt", save_summary(ld.P, ld.Tp, ld.T1_wall, ld.Ep))
        f5 == IF amdahl # <<>> THEN WriteFile(f4, "amdahl.txt", amdahl) ELSE f4
    IN  IF ar.mrange # <<>> /\ ar.nstrike # <<>>
        THEN WriteFile(f5, "throughput.png",
                 save_throughput(ld.P, ld.Tp, ld.ngrid, ar.nstrike[1], ar.mrange[1]))
        ELSE f5

\* main, up to load's return: no rows is fatal, a bad cell raises
postprocess_load ==
    /\ pc = "post-start"
    /\ outDir' = TRUE
    /\ IF table = <<>>
       THEN pc' = "exit" /\ loaded' = loaded
       ELSE IF LoadRaises(table)
       THEN pc' = "crashed" /\ loaded' = loaded
       ELSE pc' = "post-report" /\ loaded' = load(table)
    /\ UNCHANGED <<environ, TIME_FLAG, child, ret, seqExists, ompExists, ti, runs, serial,
                   rows, spawned, files, table, args>>

\* main, from load's return on
postprocess_report ==
    /\ pc = "post-report"
    /\ \E a \in amdahl_serial_fraction([i \in DOMAIN loaded.P |-> R(loaded.P[i], 1)],
                                       loaded.Tp, loaded.T1_wall) :
          files' = PostFiles(files, loaded, args, a)
    /\ pc' = "post-done"
    /\ UNCHANGED <<environ, TIME_FLAG, child, ret, seqExists, ompExists, outDir, ti, runs,
                   serial, rows, spawned, table, args, loaded>>

-----------------------------------------------------------------------------
(* What a child may print, and the hosts the harness may run on *)

W(a) == <<a>>

L_APP == <<W("[bandwidth_grid_total]"), <<"1", ".", "5">>, W("s")>>

L_APP2 == <<W("[bandwidth_grid_total]"), <<"3">>, W("s")>>

L_HCHP == <<W("hc:"), <<"0", ".", "5">>, W("hp:"), <<"0", ".", "2", "5">>>>

L_HC2 == <<W("hc:"), <<"2">>>>

L_HP2 == <<W("hp:"), <<"4">>, W("iterations"), <<"7">>>>

L_BAD == <<W("hc:"), <<"1", ".", "2", ".", "3">>>>

L_RSS == <<W("Maximum resident set size"), <<"(kbytes)", ":">>, <<"2", "0", "4", "8">>>>

L_RSSMAC == <<<<"1", "2">>, W("MAXIMUM RESIDENT SET SIZE"), <<"x", "4", "0", "9", "6">>>>

L_RSSNONE == <<W("Maximum resident set size"), W("unknown")>>

L_NOISE == <<W("Elapsed"), <<"0", ":", "0", "1">>>>

Streams ==
    { <<>>,
      <<L_APP, L_HCHP>>,
      <<L_NOISE, L_RSS>>,
      <<L_HP2, L_APP2, L_RSSMAC>>,
      <<L_RSSNONE, L_HC2, L_RSS>>,
      <<L_BAD>> }

MaxRc == 1

ExitCodes == 0..MaxRc

WallTimes == {R(1, 1), R(5, 2)}

Environs ==
    { [k \in {"PATH"} |-> <<"/usr/bin">>],
      [k \in {"PATH", "OMP_NUM_THREADS", "OMP_PROC_BIND"} |->
          CASE k = "PATH" -> <<"/usr/bin">>
            [] k = "OMP_NUM_THREADS" -> <<"1", "6">>
            [] k = "OMP_PROC_BIND" -> <<"spread">>] }

\* the environment of the host the pure computations are run on
HostEnviron == [k \in {"PATH"} |-> <<"/usr/bin">>]

TimeFlags == {<<>>, <<"-l">>, <<"-v">>}

NoChild == [cmd |-> <<>>, threads |-> <<>>, env |-> <<>>, out |-> <<>>, err |-> <<>>, rc |-> 0]

Idle ==
    /\ seqExists = TRUE /\ ompExists = TRUE /\ outDir = FALSE
    /\ ti = 0 /\ runs = <<>> /\ serial = <<>> /\ rows = <<>> /\ spawned = <<>>
    /\ files = <<>> /\ table = <<>> /\ args = <<>> /\ loaded = <<>>

-----------------------------------------------------------------------------
(* run_one called again and again, with any thread count *)

ThreadArgs == {<<>>, <<2>>, <<12>>}

InitRunOne ==
    /\ pc = "run_one"
    /\ environ \in Environs
    /\ TIME_FLAG \in TimeFlags
    /\ child = NoChild
    /\ ret = <<>>
    /\ Idle

CallRunOne ==
    /\ pc = "run_one"
    /\ \E threads \in ThreadArgs, out \in Streams, err \in Streams, rc \in ExitCodes :
          run_one(<<OMP_BIN, "48">>, threads, out, err, rc, R(1, 1))
    /\ UNCHANGED <<pc, TIME_FLAG, seqExists, ompExists, outDir, ti, runs, serial, rows,
                   spawned, files, table, args, loaded>>

NextRunOne == CallRunOne

SpecRunOne == InitRunOne /\ [][NextRunOne]_vars

-----------------------------------------------------------------------------
(* The sweep: scripts/bench.py run as a script *)

\* what the program under test prints in a sweep: <<stdout, stderr>>
SweepOutputs ==
    { << <<L_APP, L_HCHP>>, <<L_NOISE, L_RSS>> >>,
      << <<L_APP, L_HCHP>>, <<>> >>,
      << <<L_BAD>>, <<>> >> }

\* what every trial of a sweep takes
SweepWall == R(5, 2)

Init ==
    /\ pc = "start"
    /\ environ \in Environs
    /\ TIME_FLAG \in TimeFlags
    /\ child = NoChild
    /\ ret = <<>>
    /\ seqExists \in BOOLEAN
    /\ ompExists \in BOOLEAN
    /\ outDir \in BOOLEAN
    /\ ti = 0 /\ runs = <<>> /\ serial = <<>> /\ rows = <<>> /\ spawned = <<>>
    /\ files = <<>> /\ table = <<>> /\ args = <<>> /\ loaded = <<>>

SerialTrial ==
    /\ pc = "serial"
    /\ \E o \in SweepOutputs, rc \in ExitCodes :
          Trial(SEQ_BIN, 1, o[1], o[2], rc, SweepWall)

ParallelTrial ==
    /\ pc = "parallel"
    /\ \E o \in SweepOutputs, rc \in ExitCodes :
          Trial(OMP_BIN, THREADS[ti], o[1], o[2], rc, SweepWall)

Report ==
    /\ pc = "report"
    /\ \E a \in amdahl_serial_fraction([i \in DOMAIN rows |-> R(rows[i].threads, 1)],
                                       [i \in DOMAIN rows |-> rows[i].Tp_wall_s],
                                       serial.T1_wall) :
          files' = BenchFiles(files, rows, serial, a)
    /\ pc' = "done"
    /\ UNCHANGED <<environ, TIME_FLAG, child, ret, seqExists, ompExists, outDir, ti, runs,
                   serial, rows, spawned, table, args, loaded>>

Next == ensure_paths \/ SerialTrial \/ ParallelTrial \/ Report

Spec == Init /\ [][Next]_vars

-----------------------------------------------------------------------------
(* One repeat set reduced as main reduces the serial set and a thread count's set *)

AggOutputs ==
    { << <<L_APP, L_HCHP>>, <<L_NOISE, L_RSS>> >>,
      << <<L_HP2, L_APP2, L_RSSMAC>>, <<>> >>,
      << <<>>, <<>> >> }

AggSamples == {Sample(w, o[1], o[2], 0) : w \in WallTimes, o \in AggOutputs}

InitAgg ==
    /\ pc = "reduce"
    /\ environ = HostEnviron
    /\ TIME_FLAG = <<>>
    /\ child = NoChild
    /\ ret = <<>>
    /\ seqExists = TRUE /\ ompExists = TRUE /\ outDir = TRUE
    /\ ti = 2
    /\ runs \in [1..REPEATS -> AggSamples]
    /\ serial = <<>> /\ rows = <<>> /\ spawned = <<>>
    /\ files = <<>> /\ table = <<>> /\ args = <<>> /\ loaded = <<>>

Reduce ==
    /\ pc = "reduce"
    /\ serial' = SerialMedians(runs)
    /\ rows' = <<Row(THREADS[ti], runs, serial'.T1_wall)>>
    /\ pc' = "reduced"
    /\ UNCHANGED <<environ, TIME_FLAG, child, ret, seqExists, ompExists, outDir, ti, runs,
                   spawned, files, table, args, loaded>>

NextAgg == Reduce

SpecAgg == InitAgg /\ [][NextAgg]_vars

-----------------------------------------------------------------------------
(* The scaling arithmetic of main, on any baseline, time and thread count *)

MaxThreads == 4

CalcThreads == (-1)..MaxThreads

CalcT1 == {R(10, 1), R(5, 2), R(1, 1)}

CalcTp == {NaN, R(-1, 1), R(0, 1), R(5, 2), R(5, 1), R(10, 1)}

InitCalc ==
    /\ pc = "scale"
    /\ environ = HostEnviron
    /\ TIME_FLAG = <<>>
    /\ child = NoChild
    /\ ret = <<>>
    /\ seqExists = TRUE /\ ompExists = TRUE /\ outDir = TRUE
    /\ ti = 0 /\ runs = <<>>
    /\ serial \in {[T1_wall |-> t, T1_app |-> NaN, hc1 |-> NaN, hp1 |-> NaN] : t \in CalcT1}
    /\ rows = <<>> /\ spawned = <<>>
    /\ files = <<>> /\ table = <<>> /\ args = <<>> /\ loaded = <<>>

Scale ==
    /\ pc = "scale"
    /\ \E pthr \in CalcThreads, Tp \in CalcTp :
          rows' = << [threads    |-> pthr,
                      Tp_wall_s  |-> Tp,
                      speedup    |-> Speedup(serial.T1_wall, Tp),
                      efficiency |-> Efficiency(Speedup(serial.T1_wall, Tp), pthr)] >>
    /\ UNCHANGED <<pc, environ, TIME_FLAG, child, ret, seqExists, ompExists, outDir, ti,
                   runs, serial, spawned, files, table, args, loaded>>

NextCalc == Scale

SpecCalc == InitCalc /\ [][NextCalc]_vars

-----------------------------------------------------------------------------
(* The report: scripts/postprocess.py run on a persisted table *)

RECURSIVE ZeroPad(_, _)
ZeroPad(cs, k) == IF Len(cs) >= k THEN cs ELSE ZeroPad(<<"0">> \o cs, k)

\* str(x), as csv.DictWriter writes a float: nan, or the shortest decimal
FloatText(x) ==
    IF isnan(x) THEN NanText
    ELSE LET ks == {k \in 1..6 : (x.n * Pow10(k)) % x.d = 0}
             k  == CHOOSE k \in ks : \A j \in ks : k <= j
             m  == (x.n * Pow10(k)) \div x.d
         IN  str(m \div Pow10(k)) \o <<".">> \o ZeroPad(str(m % Pow10(k)), k)

MaxTableRows == 2

PostThreads == {1, 2, 4}

PostTp == {NaN, R(1, 1), R(2, 1)}

PostT1 == R(2, 1)

\* the row bench.py writes for thread count p and median wall time Tp
TextRow(pthr, Tp) ==
    [NGRID      |-> str(NGRID),
     T1_wall_s  |-> FloatText(PostT1),
     T1_app_s   |-> NanText,
     hc1        |-> FloatText(R(1, 2)),
     hp1        |-> NanText,
     threads    |-> str(pthr),
     Tp_wall_s  |-> FloatText(Tp),
     Tp_app_s   |-> NanText,
     speedup    |-> FloatText(Speedup(PostT1, Tp)),
     efficiency |-> FloatText(Efficiency(Speedup(PostT1, Tp), pthr)),
     maxrss_kb  |-> NanText,
     hc_med     |-> FloatText(R(3, 4)),
     hp_med     |-> <<>>]

TextRows == {TextRow(pthr, Tp) : pthr \in PostThreads, Tp \in PostTp}

\* a row whose wall time cell is empty
BadRow == [TextRow(1, R(1, 1)) EXCEPT !.Tp_wall_s = <<>>]

PostTables ==
    UNION {[1..n -> TextRows] : n \in 0..MaxTableRows} \cup {<<BadRow>>}

PostArgs ==
    { [mrange |-> <<>>, nstrike |-> <<>>],
      [mrange |-> <<99>>, nstrike |-> <<>>],
      [mrange |-> <<99>>, nstrike |-> <<30>>] }

InitPost ==
    /\ pc = "post-start"
    /\ environ = HostEnviron
    /\ TIME_FLAG = <<>>
    /\ child = NoChild
    /\ ret = <<>>
    /\ seqExists = TRUE /\ ompExists = TRUE /\ outDir \in BOOLEAN
    /\ ti = 0 /\ runs = <<>> /\ serial = <<>> /\ rows = <<>> /\ spawned = <<>>
    /\ files = <<>>
    /\ table \in PostTables
    /\ args \in PostArgs
    /\ loaded = <<>>

NextPost == postprocess_load \/ postprocess_report

SpecPost == InitPost /\ [][NextPost]_vars

-----------------------------------------------------------------------------
(* Properties of the sweep (Spec) *)

IsPrefix(a, b) == Len(a) <= Len(b) /\ SubSeq(b, 1, Len(a)) = a

\* the children a complete sweep spawns, in order
ExpectedSpawns ==
    [i \in 1..REPEATS |-> <<SEQ_BIN, 1>>]
        \o Flatten([k \in DOMAIN THREADS |-> [i \in 1..REPEATS |-> <<OMP_BIN, THREADS[k]>>]])

\* C3: a non-zero exit code never shortens or aborts the sweep.  The children are
\* spawned in the order serial x REPEATS, then each thread count x REPEATS; every
\* returned sample carries its child's exit code; the sweep stops early only for a
\* missing binary or a marker whose number float() rejects, whatever the exit codes;
\* and a finished sweep has spawned every trial and written one row per thread count.
C3_ExitCodeNeverAborts ==
    /\ IsPrefix(spawned, ExpectedSpawns)
    /\ (spawned # <<>> /\ pc # "crashed") =>
          /\ ret # <<>>
          /\ ret[1].rc = child.rc
          /\ Last(runs) = ret[1]
    /\ pc = "crashed" => ParseRaises(child.out, child.err)
    /\ pc = "exit" => (~seqExists \/ ~ompExists)
    /\ pc = "done" =>
          /\ spawned = ExpectedSpawns
          /\ Len(rows) = Len(THREADS)
          /\ "bench_results.csv" \in DOMAIN files
          /\ Len(files["bench_results.csv"]) = Len(THREADS)
          /\ \A i \in DOMAIN THREADS :
                /\ rows[i].threads = THREADS[i]
                /\ files["bench_results.csv"][i].threads = THREADS[i]

\* a finished sweep whose last configuration's trials all exited non-zero
C3_Witness ==
    /\ pc = "done"
    /\ Len(runs) = REPEATS
    /\ \A i \in DOMAIN runs : runs[i].rc # 0

\* C4: with a required executable missing at start no child is ever spawned and
\* no file is ever written; the script only exits.
C4_MissingBinaryRunsNothing ==
    (~seqExists \/ ~ompExists) =>
        /\ pc \in {"start", "exit"}
        /\ spawned = <<>>
        /\ child.cmd = <<>>
        /\ DOMAIN files = {}

\* the script has exited for want of the serial binary only
C4_Witness == pc = "exit" /\ ~seqExists /\ ompExists

CurveFiles == {"time_vs_threads.png", "speedup.png", "efficiency.png"}

\* rows with every peak-memory value erased
WithoutRss(rws) == [i \in DOMAIN rws |-> [rws[i] EXCEPT !.maxrss_kb = NaN]]

\* C9: a finished sweep has the memory curve exactly when some configuration has a
\* memory value; the table and the time, speedup and efficiency curves are always
\* there, and the three curves are what the same rows without any memory value give.
C9_MemoryCurveOnly ==
    pc = "done" =>
        /\ ("memory_vs_threads.png" \in DOMAIN files)
              <=> (\E i \in DOMAIN rows : ~isnan(rows[i].maxrss_kb))
        /\ CurveFiles \cup {"bench_results.csv"} \subseteq DOMAIN files
        /\ Len(files["bench_results.csv"]) = Len(rows)
        /\ \A n \in CurveFiles :
              files[n] = BenchFiles(<<>>, WithoutRss(rows), serial, <<>>)[n]

\* a finished sweep in which no sample of any configuration had a memory value
C9_Witness ==
    /\ pc = "done"
    /\ \A i \in DOMAIN rows : isnan(rows[i].maxrss_kb)
    /\ \A i \in DOMAIN runs : isnan(runs[i].maxrss_kb)
    /\ "memory_vs_threads.png" \notin DOMAIN files
    /\ CurveFiles \subseteq DOMAIN files

-----------------------------------------------------------------------------
(* Properties of run_one (SpecRunOne) *)

\* C5: every child's environment is the harness's own plus the four settings: the
\* thread-count variable is the count requested for that call (and the harness's own
\* value, or none, when no count is requested), the library override and the
\* placement hints are set, every other variable is the harness's, and the harness's
\* environment never changes.
C5_ChildEnvState ==
    child.cmd # <<>> =>
        /\ child.env["VECLIB_MAXIMUM_THREADS"] = <<"1">>
        /\ child.env["OMP_PROC_BIND"] = <<"close">>
        /\ child.env["OMP_PLACES"] = <<"cores">>
        /\ child.threads # <<>> => child.env["OMP_NUM_THREADS"] = str(child.threads[1])
        /\ child.threads = <<>> =>
              /\ ("OMP_NUM_THREADS" \in DOMAIN child.env) <=> ("OMP_NUM_THREADS" \in DOMAIN environ)
              /\ "OMP_NUM_THREADS" \in DOMAIN environ =>
                    child.env["OMP_NUM_THREADS"] = environ["OMP_NUM_THREADS"]
        /\ \A k \in DOMAIN environ \ {"VECLIB_MAXIMUM_THREADS", "OMP_PROC_BIND",
                                       "OMP_PLACES", "OMP_NUM_THREADS"} :
              child.env[k] = environ[k]

Present(re(_), stream) ==
    LET toks == Flatten(stream)
    IN  re(toks) # 0 /\ FloatOk(toks[re(toks) + 1])

\* the stream holds no match of the marker's pattern
Absent(re(_), stream) == re(Flatten(stream)) = 0

\* C2 as claimed: for a call that returned a sample, each of the three markers gives
\* a non-missing field when it is present in stdout or in stderr, and a missing field
\* when it is in neither.
C2_MarkersFromEitherStream ==
    ret # <<>> =>
        /\ (Present(APP_TIME_RE, child.out) \/ Present(APP_TIME_RE, child.err))
              => ~isnan(ret[1].app_s)
        /\ (Present(HC_RE, child.out) \/ Present(HC_RE, child.err)) => ~isnan(ret[1].hc)
        /\ (Present(HP_RE, child.out) \/ Present(HP_RE, child.err)) => ~isnan(ret[1].hp)
        /\ (Absent(APP_TIME_RE, child.out) /\ Absent(APP_TIME_RE, child.err))
              => isnan(ret[1].app_s)
        /\ (Absent(HC_RE, child.out) /\ Absent(HC_RE, child.err)) => isnan(ret[1].hc)
        /\ (Absent(HP_RE, child.out) /\ Absent(HP_RE, child.err)) => isnan(ret[1].hp)

\* a line holds the report phrase, in any case
HasPhrase(line) == KeyIn(RSS_KEYS[1], line)

\* C10 as claimed: for a call that returned a sample, the peak-memory field is
\* missing when no line of stdout-then-stderr holds the phrase, and is non-missing
\* (the last integer of a line holding the phrase) as soon as some line holding the
\* phrase carries an integer.
C10_PeakMemoryFound ==
    ret # <<>> =>
        LET lines == child.out \o child.err
            hits  == {i \in DOMAIN lines : HasPhrase(lines[i]) /\ findall_int(lines[i]) # <<>>}
        IN  /\ (\A i \in DOMAIN lines : ~HasPhrase(lines[i])) => isnan(ret[1].maxrss_kb)
            /\ hits # {} =>
                  \E i \in hits :
                      ret[1].maxrss_kb = R(IntOf(Last(findall_int(lines[i]))), 1)

-----------------------------------------------------------------------------
(* Properties of the reduction (SpecAgg) *)

RECURSIVE Ascending(_)
\* the values of xs (none of them NaN) in ascending order
Ascending(xs) ==
    IF xs = <<>> THEN <<>>
    ELSE LET i == CHOOSE i \in DOMAIN xs : \A j \in DOMAIN xs : ~Lt(xs[j], xs[i])
         IN  <<xs[i]>> \o Ascending(SubSeq(xs, 1, i - 1) \o SubSeq(xs, i + 1, Len(xs)))

\* the standard median of the non-missing values of vals, NaN when there is none
StdMedian(vals) ==
    LET d == Ascending(SelectSeq(vals, LAMBDA v : ~isnan(v)))
        n == Len(d)
    IN  IF n = 0 THEN NaN
        ELSE IF n % 2 = 1 THEN d[(n \div 2) + 1]
        ELSE Div(Add(d[n \div 2], d[(n \div 2) + 1]), R(2, 1))

\* C1 as claimed: every aggregate of a reduced repeat set, as a thread count's row
\* and as the serial baseline, is the standard median of the field's non-missing values.
C1_MedianOfNonMissing ==
    pc = "reduced" =>
        /\ rows[1].Tp_wall_s = StdMedian(Field(runs, "wall_s"))
        /\ rows[1].Tp_app_s = StdMedian(Field(runs, "app_s"))
        /\ rows[1].maxrss_kb = StdMedian(Field(runs, "maxrss_kb"))
        /\ rows[1].hc_med = StdMedian(Field(runs, "hc"))
        /\ rows[1].hp_med = StdMedian(Field(runs, "hp"))
        /\ serial.T1_wall = StdMedian(Field(runs, "wall_s"))
        /\ serial.T1_app = StdMedian(Field(runs, "app_s"))
        /\ serial.hc1 = StdMedian(Field(runs, "hc"))
        /\ serial.hp1 = StdMedian(Field(runs, "hp"))

-----------------------------------------------------------------------------
(* Properties of the scaling arithmetic (SpecCalc) *)

\* x * y = z on non-NaN floats
IsProduct(x, y, z) == x.n * y.n * z.d = z.n * x.d * y.d

\* C6: speedup times Tp is T1 and efficiency times p is speedup; both are NaN when Tp
\* is NaN or not positive, and efficiency is NaN when p is not positive.  T1 = 10 with
\* Tp = 10, 5, 2.5 at 1, 2, 4 threads gives speedups 1, 2, 4 and efficiencies 1, 1, 1.
C6_SpeedupEfficiency ==
    \A i \in DOMAIN rows :
        LET r   == rows[i]
            T1  == serial.T1_wall
            bad == isnan(r.Tp_wall_s) \/ ~Gt(r.Tp_wall_s, R(0, 1))
        IN  /\ bad => isnan(r.speedup) /\ isnan(r.efficiency)
            /\ r.threads <= 0 => isnan(r.efficiency)
            /\ ~bad => ~isnan(r.speedup) /\ IsProduct(r.speedup, r.Tp_wall_s, T1)
            /\ (~bad /\ r.threads > 0) =>
                  ~isnan(r.efficiency) /\ IsProduct(r.efficiency, R(r.threads, 1), r.speedup)
            /\ (T1 = R(10, 1) /\ r.threads = 1 /\ r.Tp_wall_s = R(10, 1)) =>
                  r.speedup = R(1, 1) /\ r.efficiency = R(1, 1)
            /\ (T1 = R(10, 1) /\ r.threads = 2 /\ r.Tp_wall_s = R(5, 1)) =>
                  r.speedup = R(2, 1) /\ r.efficiency = R(1, 1)
            /\ (T1 = R(10, 1) /\ r.threads = 4 /\ r.Tp_wall_s = R(5, 2)) =>
                  r.speedup = R(4, 1) /\ r.efficiency = R(1, 1)

\* the last point of the example: T1 = 10, Tp = 2.5 at 4 threads
C6_Witness ==
    /\ pc = "scale"
    /\ rows # <<>>
    /\ serial.T1_wall = R(10, 1)
    /\ rows[1].threads = 4
    /\ rows[1].Tp_wall_s = R(5, 2)
    /\ rows[1].speedup = R(4, 1)
    /\ rows[1].efficiency = R(1, 1)

-----------------------------------------------------------------------------
(* Properties of the report (SpecPost) *)

\* C7 as claimed: the summary names the smallest thread count among the
\* configurations whose wall time is the smallest of the defined ones.
C7_BestIsSmallestTime ==
    (pc = "post-done" /\ \E i \in DOMAIN loaded.Tp : ~isnan(loaded.Tp[i])) =>
        LET Tp   == loaded.Tp
            mins == {i \in DOMAIN Tp : ~isnan(Tp[i])
                        /\ \A j \in DOMAIN Tp : ~Lt(Tp[j], Tp[i])}
        IN  /\ files["summary.txt"].best_p \in {loaded.P[i] : i \in mins}
            /\ \A i \in mins : files["summary.txt"].best_p <= loaded.P[i]

\* C8 as claimed: with fewer than two distinct thread counts, or with every Tp
\* undefined, a finished report has no amdahl.txt; and every table with rows that
\* load accepts gets a finished report with the other artifacts.
C8_NoEstimateWhenIllPosed ==
    /\ pc = "post-done" =>
          /\ {"speedup_vs_serial.png", "correctness_table.md", "summary.txt"}
                \subseteq DOMAIN files
          /\ (\/ Cardinality(Range(loaded.P)) < 2
              \/ \A i \in DOMAIN loaded.Tp : isnan(loaded.Tp[i]))
                => "amdahl.txt" \notin DOMAIN files
    /\ pc = "crashed" => LoadRaises(table)
    /\ pc = "exit" => table = <<>>

====
